---------------------------- MODULE Spec2Model ----------------------------
(***************************************************************************)
(* Argos: the streaming log-anomaly pipeline                               *)
(*     Ingestor -- Q1 --> Parser(pool) -- Q2 --> Analyzer -- Q3 --> Alerter *)
(* with the driver (main) that starts the four components and stops them   *)
(* in order.  Go strings are modelled as tuples of bytes where the code    *)
(* looks inside them (message, source, rule name) and as TLA+ strings      *)
(* where the code only compares them (level, severity).                    *)
(***************************************************************************)
EXTENDS Integers, Sequences, FiniteSets, TLC

(***************************************************************************)
(* Bounds of the model.  The three buffer sizes and the worker count are   *)
(* the driver's constants (1000, 1000, 100 and 4) scaled down so that full *)
(* queues and idle workers are reached.                                    *)
(***************************************************************************)
ingestBufferSize == 1
parseBufferSize == 1
alertBufferSize == 1
parserWorkers == 2
\* HTTP requests, TCP connections and records the clients send in one run.
MaxRequests == 1
MaxConns == 1
MaxLogs == 2
\* malformed lines a client sends on one connection
MaxMalformed == 1

(***************************************************************************)
(* Byte strings                                                            *)
(***************************************************************************)
\* "Critical Error Level"
NameCriticalErrorLevel ==
    <<67, 114, 105, 116, 105, 99, 97, 108, 32, 69, 114, 114, 111, 114, 32,
      76, 101, 118, 101, 108>>
\* "Error Code 5xx"
NameErrorCode5xx ==
    <<69, 114, 114, 111, 114, 32, 67, 111, 100, 101, 32, 53, 120, 120>>
\* "Suspicious Keywords"
NameSuspiciousKeywords ==
    <<83, 117, 115, 112, 105, 99, 105, 111, 117, 115, 32, 75, 101, 121, 119,
      111, 114, 100, 115>>
\* "Error Rate Threshold"
NameErrorRateThreshold ==
    <<69, 114, 114, 111, 114, 32, 82, 97, 116, 101, 32, 84, 104, 114, 101,
      115, 104, 111, 108, 100>>
\* {"attack", "breach", "unauthorized", "exploit", "malicious"}
suspiciousWords ==
    { <<97, 116, 116, 97, 99, 107>>,
      <<98, 114, 101, 97, 99, 104>>,
      <<117, 110, 97, 117, 116, 104, 111, 114, 105, 122, 101, 100>>,
      <<101, 120, 112, 108, 111, 105, 116>>,
      <<109, 97, 108, 105, 99, 105, 111, 117, 115>> }

IsDigit(c) == c >= 48 /\ c <= 57
IsUpper(c) == c >= 65 /\ c <= 90
IsLower(c) == c >= 97 /\ c <= 122
\* \w of the regexp package: [0-9A-Za-z_]
IsWordChar(c) == IsDigit(c) \/ IsUpper(c) \/ IsLower(c) \/ c = 95
\* unicode.IsSpace on ASCII: \t \n \v \f \r and space
IsSpace(c) == c = 32 \/ (c >= 9 /\ c <= 13)

SubStr(s, from, to) == [i \in 1..(to - from + 1) |-> s[from + i - 1]]

\* \b between positions p-1 and p of s (1-based; p = Len(s)+1 is the end)
WordBoundary(s, p) ==
    LET before == p > 1 /\ IsWordChar(s[p - 1])
        after == p <= Len(s) /\ IsWordChar(s[p])
    IN before # after

\* the number of digits of s starting at position p
RECURSIVE DigitRun(_, _)
DigitRun(s, p) ==
    IF p <= Len(s) /\ IsDigit(s[p]) THEN 1 + DigitRun(s, p + 1) ELSE 0

HasPrefixAt(s, p, w) ==
    /\ p + Len(w) - 1 <= Len(s)
    /\ \A i \in 1..Len(w) : s[p + i - 1] = w[i]

(***************************************************************************)
(* Parser.ipRegex  \b(?:\d{1,3}\.){3}\d{1,3}\b                             *)
(* MatchIPGroups gives the position after n groups "\d{1,3}\." that start  *)
(* at p, or 0; MatchIPAt the position after a whole match at p, or 0.      *)
(***************************************************************************)
RECURSIVE MatchIPGroups(_, _, _)
MatchIPGroups(s, p, n) ==
    IF n = 0 THEN p
    ELSE LET d == DigitRun(s, p)
         IN IF d >= 1 /\ d <= 3 /\ p + d <= Len(s) /\ s[p + d] = 46
            THEN MatchIPGroups(s, p + d + 1, n - 1)
            ELSE 0

MatchIPAt(s, p) ==
    IF ~WordBoundary(s, p) THEN 0
    ELSE LET q == MatchIPGroups(s, p, 3)
         IN IF q = 0 THEN 0
            ELSE LET d == DigitRun(s, q)
                 IN IF d >= 1 /\ d <= 3 /\ WordBoundary(s, q + d)
                    THEN q + d
                    ELSE 0

(***************************************************************************)
(* Parser.errorRegex  \b(?:ERROR|FATAL|CRITICAL|[45]\d{2})\b               *)
(***************************************************************************)
ErrorTokens ==
    << <<69, 82, 82, 79, 82>>,                  \* ERROR
       <<70, 65, 84, 65, 76>>,                  \* FATAL
       <<67, 82, 73, 84, 73, 67, 65, 76>> >>    \* CRITICAL

MatchErrorAt(s, p) ==
    IF ~WordBoundary(s, p) THEN 0
    ELSE IF \E k \in 1..3 : HasPrefixAt(s, p, ErrorTokens[k])
                            /\ WordBoundary(s, p + Len(ErrorTokens[k]))
    THEN p + Len(ErrorTokens[CHOOSE k \in 1..3 :
                     HasPrefixAt(s, p, ErrorTokens[k])
                     /\ WordBoundary(s, p + Len(ErrorTokens[k]))])
    ELSE IF /\ p + 2 <= Len(s)
            /\ s[p] \in {52, 53}
            /\ IsDigit(s[p + 1]) /\ IsDigit(s[p + 2])
            /\ WordBoundary(s, p + 3)
    THEN p + 3
    ELSE 0

\* Regexp.FindString with the ip regex: the leftmost match, or ""
RECURSIVE FindIP(_, _)
FindIP(s, p) ==
    IF p > Len(s) THEN <<>>
    ELSE LET q == MatchIPAt(s, p)
         IN IF q # 0 THEN SubStr(s, p, q - 1) ELSE FindIP(s, p + 1)

\* Regexp.FindString with the error regex: the leftmost match, or ""
RECURSIVE FindErrorCode(_, _)
FindErrorCode(s, p) ==
    IF p > Len(s) THEN <<>>
    ELSE LET q == MatchErrorAt(s, p)
         IN IF q # 0 THEN SubStr(s, p, q - 1) ELSE FindErrorCode(s, p + 1)

(***************************************************************************)
(* strings.Fields, strings.Trim(word, ".,;:!?"), strings.ToLower           *)
(***************************************************************************)
RECURSIVE Fields(_, _, _)
\* cur is the field being read, p the next position
Fields(s, p, cur) ==
    IF p > Len(s) THEN (IF cur = <<>> THEN <<>> ELSE <<cur>>)
    ELSE IF IsSpace(s[p])
         THEN (IF cur = <<>> THEN <<>> ELSE <<cur>>) \o Fields(s, p + 1, <<>>)
         ELSE Fields(s, p + 1, Append(cur, s[p]))

\* the cutset ".,;:!?"
TrimCutset == {46, 44, 59, 58, 33, 63}

RECURSIVE TrimLeft(_)
TrimLeft(w) ==
    IF w # <<>> /\ w[1] \in TrimCutset THEN TrimLeft(Tail(w)) ELSE w

RECURSIVE TrimRight(_)
TrimRight(w) ==
    IF w # <<>> /\ w[Len(w)] \in TrimCutset
    THEN TrimRight(SubStr(w, 1, Len(w) - 1))
    ELSE w

\* strings.Trim removes the cutset's characters at both ends
Trim(w) == TrimRight(TrimLeft(w))

ToLower(w) == [i \in 1..Len(w) |-> IF IsUpper(w[i]) THEN w[i] + 32 ELSE w[i]]

RECURSIVE KeywordsOf(_)
KeywordsOf(words) ==
    IF words = <<>> THEN <<>>
    ELSE LET word == ToLower(Trim(Head(words)))
         IN (IF Len(word) > 3 THEN <<word>> ELSE <<>>) \o KeywordsOf(Tail(words))

\* The fields Parser.parse derives from a message.
ExtractFields(message) ==
    [ IP |-> FindIP(message, 1),
      ErrorCode |-> FindErrorCode(message, 1),
      Keywords |-> KeywordsOf(Fields(message, 1, <<>>)) ]

(***************************************************************************)
(* BloomFilter.  A 64-bit hash is kept as eight bytes, least significant   *)
(* first, so that every intermediate value fits in 32 bits; uint is taken  *)
(* to be 64 bits wide.                                                     *)
(***************************************************************************)
\* NewBloomFilter(100000, 3)
bloomSize == 100000
hashCount == 3

\* fnv.New64a: offset basis 0xcbf29ce484222325, least significant byte first
FNVOffset64 == <<37, 35, 34, 132, 228, 156, 242, 203>>

RECURSIVE XorByte(_, _)
XorByte(a, b) ==
    IF a = 0 /\ b = 0 THEN 0
    ELSE (((a % 2) + (b % 2)) % 2) + 2 * XorByte(a \div 2, b \div 2)

\* h * 0x100000001b3 mod 2^64; the prime is 2^40 + 435
RECURSIVE MulPrime64(_, _, _)
MulPrime64(h, k, carry) ==
    IF k > 8 THEN <<>>
    ELSE LET t == (h[k] * 435) + (IF k > 5 THEN h[k - 5] ELSE 0) + carry
         IN <<t % 256>> \o MulPrime64(h, k + 1, t \div 256)

\* FNV-1a over the bytes data[p..], from state h: xor the byte in, multiply
RECURSIVE FNV1a(_, _, _)
FNV1a(h, data, p) ==
    IF p > Len(data) THEN h
    ELSE LET next == MulPrime64([h EXCEPT ![1] = XorByte(h[1], data[p])], 1, 0)
         IN IF Len(next) = 8 THEN FNV1a(next, data, p + 1) ELSE next

\* BloomFilter.hash: the item's bytes, then the single byte byte(seed)
hash(item, seed) == FNV1a(FNVOffset64, item \o <<seed % 256>>, 1)

\* h % n for a 64-bit h, most significant byte first
RECURSIVE Mod64(_, _, _, _)
Mod64(h, k, n, r) ==
    IF k = 0 THEN r ELSE Mod64(h, k - 1, n, ((r * 256) + h[k]) % n)

\* the positions hash(item, i) % size for i in [0, hashCount)
HashPositions(item) ==
    { Mod64(hash(item, i), 8, bloomSize, 0) : i \in 0..(hashCount - 1) }

(***************************************************************************)
(* Records the clients send.  A client's record is one of these templates  *)
(* stamped with a timestamp that is unique in the run.                     *)
(***************************************************************************)
\* FATAL from "db": "Security breach from 10.0.0.1"
LogBreach ==
    [ Level |-> "FATAL", Source |-> <<100, 98>>,
      Message |-> <<83, 101, 99, 117, 114, 105, 116, 121, 32, 98, 114, 101,
                    97, 99, 104, 32, 102, 114, 111, 109, 32, 49, 48, 46, 48,
                    46, 48, 46, 49>> ]
\* ERROR from "db10": "disk slow"
LogDiskSlow ==
    [ Level |-> "ERROR", Source |-> <<100, 98, 49, 48>>,
      Message |-> <<100, 105, 115, 107, 32, 115, 108, 111, 119>> ]
\* INFO from "db200": "got 503"
LogGot503 ==
    [ Level |-> "INFO", Source |-> <<100, 98, 50, 48, 48>>,
      Message |-> <<103, 111, 116, 32, 53, 48, 51>> ]
\* INFO from "db": "ok"
LogOk ==
    [ Level |-> "INFO", Source |-> <<100, 98>>, Message |-> <<111, 107>> ]

Templates == {LogBreach, LogDiskSlow, LogGot503, LogOk}

\* ExtractFields and HashPositions of the strings the templates give rise
\* to, computed once
ExtractTable == [m \in {t.Message : t \in Templates} |-> ExtractFields(m)]

Extract(message) ==
    IF message \in DOMAIN ExtractTable THEN ExtractTable[message]
    ELSE ExtractFields(message)

PositionTable ==
    [k \in {n \o <<58>> \o t.Source :
              n \in {NameCriticalErrorLevel, NameErrorCode5xx,
                     NameSuspiciousKeywords, NameErrorRateThreshold},
              t \in Templates} |-> HashPositions(k)]

BitPositions(item) ==
    IF item \in DOMAIN PositionTable THEN PositionTable[item]
    ELSE HashPositions(item)

\* Add with an off-by-one index into the bit array: it sets the bit after
\* each position Contains reads
AddWrongPosition(bf, item) == bf \cup { (b + 1) % bloomSize : b \in BitPositions(item) }

\* Add whose loop stops after the first hash
AddOneHash(bf, item) == bf \cup { CHOOSE b \in BitPositions(item) : TRUE }

\* BloomFilter.Add: bf is the set of positions that hold true
Add(bf, item) == bf \cup BitPositions(item)

\* BloomFilter.Contains
Contains(bf, item) == \A b \in BitPositions(item) : b \in bf

\* BloomFilter.Clear
Clear(bf) == {}

\* ingestor.LogEntry decoded from a client's JSON
LogEntry(t, ts) ==
    [ Timestamp |-> ts, Level |-> t.Level, Source |-> t.Source,
      Message |-> t.Message ]

\* Parser.parse
parse(entry) ==
    LET x == Extract(entry.Message)
    IN [ Timestamp |-> entry.Timestamp, Level |-> entry.Level,
         Source |-> entry.Source, Message |-> entry.Message,
         IP |-> x.IP, ErrorCode |-> x.ErrorCode, Keywords |-> x.Keywords ]

(***************************************************************************)
(* Analyzer.initializeRules: the rules in registration order               *)
(***************************************************************************)
CheckCriticalLevel(log) == log.Level = "CRITICAL" \/ log.Level = "FATAL"

CheckErrorCode5xx(log) == Len(log.ErrorCode) > 0 /\ log.ErrorCode[1] = 53

CheckSuspiciousKeywords(log) ==
    \E i \in 1..Len(log.Keywords) : log.Keywords[i] \in suspiciousWords

CheckErrorRate(log) == log.Level = "ERROR"

rules ==
    << [Name |-> NameCriticalErrorLevel, Severity |-> "HIGH"],
       [Name |-> NameErrorCode5xx, Severity |-> "HIGH"],
       [Name |-> NameSuspiciousKeywords, Severity |-> "MEDIUM"],
       [Name |-> NameErrorRateThreshold, Severity |-> "MEDIUM"] >>

\* rule.Check(log) for the rule registered at position i
Check(i, log) ==
    CASE i = 1 -> CheckCriticalLevel(log)
      [] i = 2 -> CheckErrorCode5xx(log)
      [] i = 3 -> CheckSuspiciousKeywords(log)
      [] i = 4 -> CheckErrorRate(log)

\* rule.Name + ":" + logEntry.Source
bloomKey(i, log) == rules[i].Name \o <<58>> \o log.Source

\* the loop that ends after the first alert
FiringFromOnce(i, log) ==
    IF i = 1 THEN { j \in 1..Len(rules) : Check(j, log) } ELSE {}

\* the positions from i on of the rules that fire on log
FiringFrom(i, log) == { j \in i..Len(rules) : Check(j, log) }

Min(S) == CHOOSE x \in S : \A y \in S : x <= y

(***************************************************************************)
(* State                                                                   *)
(***************************************************************************)
VARIABLES
    mainPc,        \* where main is
    panicked,      \* an unrecovered panic has ended the process
    q1, q2, q3,                   \* ingestChan, parseChan, alertChan
    q1Closed, q2Closed, q3Closed, \* close(ch) has been called
    ingShutdown, prsShutdown, anlShutdown, altShutdown,
                   \* each component's shutdown channel has been closed
    ingWg, prsWg, anlWg, altWg,   \* each component's WaitGroup counter
    startResult,   \* what Ingestor.Start returned: "none", "nil" or "error"
    httpSrv,       \* startHTTPServer: "none", "start", "serving", "exited"
    httpListener,  \* "none", "open", "failed", "closed"
    httpCloseCalled, \* server.Close() has run
    tcpSrv,        \* startTCPServer: "none", "start", "accepting", "exited"
    tcpListener,   \* "none", "open", "failed", "closed"
    httpReq,       \* per request: pc, entry (0 or 1 LogEntry), resp
    tcpConn,       \* per connection: pc, entry, malformed lines skipped, and
                   \* lines: the lines read so far in arrival order, a record's
                   \* timestamp for a well-formed line and 0 for a malformed one
    nLogs,         \* well-formed records the clients have sent so far
    feed,          \* the templates the clients draw their records from
    quota,         \* the number of well-formed records the clients send in the run
    worker,        \* per parser worker: pc, parsed (0 or 1 ParsedLog)
    anlPc,         \* analyze: "none", "recv", "proc", "send", "exited"
    anlLog,        \* the ParsedLog processLog works on (0 or 1)
    anlRule,       \* the position of the next rule processLog tries
    anlAlert,      \* the Alert processLog is sending (0 or 1)
    bits,          \* bloomFilter.bits: the positions that hold true
    windowCount,   \* the windowCount map
    clnPc,         \* cleanupWindow: "none", "loop", "exited"
    altPc,         \* processAlerts: "none", "recv", "output", "exited"
    altAlert,      \* the Alert outputAlert works on (0 or 1)
    file,          \* the alert file: "none", "open", "closed"
    fileData,      \* the records written to the alert file, in order
    stdout,        \* the alerts printed to standard output, in order
    logged,        \* what the alerter has logged: <<failure, timestamp, reason>>
    \* history, read by the properties only
    sentOnClosed,  \* the queues on which a send after close was attempted
    enq1, enq2,    \* timestamps of the records placed on Q1 and on Q2
    evaluated,     \* timestamps of the logs processLog finished, no alert abandoned
    alerted,       \* the keys added to the Bloom filter since it was last empty:
                   \* those processLog has constructed an alert for
    q1AtClose, q2AtClose, q3AtClose,  \* what each queue held when it was closed
    tcpLost,       \* timestamps of the TCP records whose send was neither done nor cancelled
    sent3,         \* the alerts placed on Q3, in order
    sinceReset,    \* per key, count_in_window of the alerts built since the last reset
    writeFailed,   \* <<timestamp, reason>> of the alerts whose write to the file failed
    fileBytes,     \* what the alert file holds: the chunks written, in order
    windowMutex,   \* who holds windowMutex: "free", "analyze" or "cleanupWindow"
    abandoned,     \* <<timestamp, reason>> of the alerts whose send onto Q3 was cancelled
    bloomUsers     \* the goroutines that have read or written bloomFilter.bits

vars ==
    << mainPc, panicked, q1, q2, q3, q1Closed, q2Closed, q3Closed,
       ingShutdown, prsShutdown, anlShutdown, altShutdown,
       ingWg, prsWg, anlWg, altWg, startResult,
       httpSrv, httpListener, httpCloseCalled, tcpSrv, tcpListener,
       httpReq, tcpConn, nLogs, feed, quota, worker,
       anlPc, anlLog, anlRule, anlAlert, bits, windowCount, clnPc,
       altPc, altAlert, file, fileData, stdout, logged,
       sentOnClosed, enq1, enq2, evaluated, alerted,
       q1AtClose, q2AtClose, q3AtClose, tcpLost, sent3, sinceReset,
       writeFailed, fileBytes, windowMutex, abandoned, bloomUsers >>

\* the variables grouped by the component that owns them
mainVars == << mainPc, startResult >>
chanVars == << q1, q2, q3, q1Closed, q2Closed, q3Closed >>
shutVars == << ingShutdown, prsShutdown, anlShutdown, altShutdown >>
ingVars == << ingWg, httpSrv, httpListener, httpCloseCalled, tcpSrv,
              tcpListener, httpReq, tcpConn, nLogs, tcpLost >>
prsVars == << prsWg, worker >>
anlVars == << anlWg, anlPc, anlLog, anlRule, anlAlert, bits, windowCount,
              clnPc, evaluated, alerted, sinceReset >>
outVars == << stdout, logged, writeFailed >>
altVars == << altWg, altPc, altAlert, file, fileData, outVars >>
closeVars == << q1AtClose, q2AtClose, q3AtClose >>
histVars == << sentOnClosed, enq1, enq2, sent3 >>
srvVars == << httpSrv, httpListener, httpCloseCalled, tcpSrv, tcpListener >>
fixedVars == << panicked, mainVars, shutVars, closeVars >>
auxVars == << fileBytes, windowMutex, abandoned, bloomUsers >>

Requests == 1..MaxRequests
Conns == 1..MaxConns
\* the connections of the runs that look at the ingestor alone
WideConns == 1..(MaxConns + 1)
Workers == 1..parserWorkers

\* the process runs: main has not returned, log.Fatalf has not exited it,
\* and no goroutine has panicked
Alive == ~panicked /\ mainPc \notin {"done", "fatal"}

\* a send on ch can proceed: room in the buffer, or ch is closed (it panics)
CanSend(q, closed, cap) == closed \/ Len(q) < cap

InitFor(templates, records) ==
    /\ mainPc = "ingStart"
    /\ panicked = FALSE
    /\ q1 = <<>> /\ q2 = <<>> /\ q3 = <<>>
    /\ q1Closed = FALSE /\ q2Closed = FALSE /\ q3Closed = FALSE
    /\ ingShutdown = FALSE /\ prsShutdown = FALSE
    /\ anlShutdown = FALSE /\ altShutdown = FALSE
    /\ ingWg = 0 /\ prsWg = 0 /\ anlWg = 0 /\ altWg = 0
    /\ startResult = "none"
    /\ httpSrv = "none" /\ httpListener = "none" /\ httpCloseCalled = FALSE
    /\ tcpSrv = "none" /\ tcpListener = "none"
    /\ httpReq = [r \in Requests |-> [pc |-> "idle", entry |-> <<>>, resp |-> 0]]
    /\ tcpConn = [c \in WideConns |-> [pc |-> "idle", entry |-> <<>>, skipped |-> 0,
                                    lines |-> <<>>]]
    /\ nLogs = 0
    /\ feed = templates /\ quota = records
    /\ worker = [w \in Workers |-> [pc |-> "none", parsed |-> <<>>]]
    /\ anlPc = "none" /\ anlLog = <<>> /\ anlRule = 1 /\ anlAlert = <<>>
    /\ bits = {} /\ windowCount = <<>> /\ clnPc = "none"
    /\ altPc = "none" /\ altAlert = <<>> /\ file = "none" /\ fileData = <<>>
    /\ stdout = <<>> /\ logged = {} /\ writeFailed = {}
    /\ sent3 = <<>> /\ sinceReset = <<>>
    /\ sentOnClosed = {} /\ enq1 = {} /\ enq2 = {} /\ evaluated = {}
    /\ alerted = {}
    /\ q1AtClose = {} /\ q2AtClose = {} /\ q3AtClose = {}
    /\ tcpLost = {}
    /\ fileBytes = <<>> /\ windowMutex = "free"
    /\ abandoned = {} /\ bloomUsers = {}

InitWith(templates) == InitFor(templates, MaxLogs)

\* the clients send records on which exactly one rule fires
Init == InitWith({LogDiskSlow, LogGot503})

\* the clients send records on which two rules, one rule and no rule fire
RunInit == InitWith(Templates)

(***************************************************************************)
(* main: start-up                                                          *)
(***************************************************************************)
\* Ingestor.Start: wg.Add(2), two goroutines, return nil
IngestorStart ==
    /\ Alive /\ mainPc = "ingStart"
    /\ ingWg' = 2
    /\ httpSrv' = "start" /\ tcpSrv' = "start"
    /\ startResult' = "nil"
    /\ mainPc' = "prsStart"
    /\ UNCHANGED << feed, quota, auxVars, panicked, chanVars, shutVars, prsVars, anlVars, altVars,
                    closeVars, httpListener, httpCloseCalled, tcpListener,
                    httpReq, tcpConn, nLogs, tcpLost, sentOnClosed, enq1, enq2, sent3 >>

\* Parser.Start: one goroutine per worker
ParserStart ==
    /\ Alive /\ mainPc = "prsStart"
    /\ prsWg' = parserWorkers
    /\ worker' = [w \in Workers |-> [pc |-> "recv", parsed |-> <<>>]]
    /\ mainPc' = "anlStart"
    /\ UNCHANGED << feed, quota, auxVars, panicked, startResult, chanVars, shutVars, ingVars, anlVars,
                    altVars, closeVars, sentOnClosed, enq1, enq2, sent3 >>

\* Analyzer.Start: analyze and cleanupWindow
AnalyzerStart ==
    /\ Alive /\ mainPc = "anlStart"
    /\ anlWg' = 2
    /\ anlPc' = "recv" /\ clnPc' = "loop"
    /\ mainPc' = "altStart"
    /\ UNCHANGED << feed, quota, auxVars, panicked, startResult, chanVars, shutVars, ingVars, prsVars,
                    altVars, closeVars, anlLog, anlRule, anlAlert, bits,
                    windowCount, evaluated, alerted, sinceReset, sentOnClosed,
                    enq1, enq2, sent3 >>

\* Start that launches processAlerts before it opens the file
AlerterStartConsumerFirst ==
    /\ Alive /\ mainPc = "altStart"
    /\ altWg' = 1 /\ altPc' = "recv"
    /\ \/ file' = "open" /\ mainPc' = "running"
       \/ mainPc' = "fatal" /\ UNCHANGED file
    /\ UNCHANGED << feed, quota, auxVars, panicked, startResult, chanVars, shutVars, ingVars,
                    prsVars, anlVars, closeVars, altAlert, fileData, outVars,
                    histVars >>

\* Alerter.Start: the file opens and processAlerts is started, or the open
\* fails, Start returns the error and main ends the process (log.Fatalf)
AlerterStart ==
    /\ Alive /\ mainPc = "altStart"
    /\ \/ /\ file' = "open" /\ altWg' = 1 /\ altPc' = "recv"
          /\ mainPc' = "running"
       \/ /\ mainPc' = "fatal"
          /\ UNCHANGED << file, altWg, altPc >>
    /\ UNCHANGED << feed, quota, auxVars, panicked, startResult, chanVars, shutVars, ingVars, prsVars,
                    anlVars, closeVars, altAlert, fileData, outVars, histVars >>

(***************************************************************************)
(* Ingestor                                                                *)
(***************************************************************************)
\* startHTTPServer reaches ListenAndServe: the port is bound and the server
\* serves; or the bind fails, the error is logged and the goroutine returns;
\* or server.Close() has already run and ListenAndServe returns at once
HTTPListen ==
    /\ Alive /\ httpSrv = "start"
    /\ IF httpCloseCalled
       THEN /\ httpSrv' = "exited" /\ ingWg' = ingWg - 1
            /\ UNCHANGED httpListener
       ELSE \/ /\ httpSrv' = "serving" /\ httpListener' = "open"
               /\ UNCHANGED ingWg
            \/ /\ httpSrv' = "exited" /\ httpListener' = "failed"
               /\ ingWg' = ingWg - 1
    /\ UNCHANGED << feed, quota, auxVars, fixedVars, chanVars, prsVars, anlVars, altVars, histVars,
                    httpCloseCalled, tcpSrv, tcpListener, httpReq, tcpConn,
                    nLogs, tcpLost >>

\* the goroutine of startHTTPServer that waits for shutdown: server.Close()
HTTPClose ==
    /\ Alive /\ ingShutdown /\ httpSrv # "none" /\ ~httpCloseCalled
    /\ httpCloseCalled' = TRUE
    /\ httpListener' = IF httpListener = "open" THEN "closed" ELSE httpListener
    /\ UNCHANGED << feed, quota, auxVars, fixedVars, chanVars, prsVars, anlVars, altVars, histVars,
                    ingWg, httpSrv, tcpSrv, tcpListener, httpReq, tcpConn,
                    nLogs, tcpLost >>

\* ListenAndServe returns http.ErrServerClosed; startHTTPServer returns
HTTPServeReturn ==
    /\ Alive /\ httpSrv = "serving" /\ httpCloseCalled
    /\ httpSrv' = "exited" /\ ingWg' = ingWg - 1
    /\ UNCHANGED << feed, quota, auxVars, fixedVars, chanVars, prsVars, anlVars, altVars, histVars,
                    httpListener, httpCloseCalled, tcpSrv, tcpListener,
                    httpReq, tcpConn, nLogs, tcpLost >>

\* handleHTTPLogs up to its select: a well-formed POST is decoded
HTTPRequest(r) ==
    /\ Alive /\ httpSrv = "serving" /\ httpListener = "open"
    /\ httpReq[r].pc = "idle"
    /\ nLogs < quota
    /\ \E t \in feed :
          httpReq' = [httpReq EXCEPT ![r] =
              [pc |-> "select", entry |-> <<LogEntry(t, nLogs + 1)>>, resp |-> 0]]
    /\ nLogs' = nLogs + 1
    /\ UNCHANGED << feed, quota, auxVars, fixedVars, chanVars, prsVars, anlVars, altVars, histVars,
                    ingWg, srvVars, tcpConn, tcpLost >>

\* handleHTTPLogs: a request that is no POST is answered 405, a body that is
\* no JSON 400
HTTPBadRequest(r) ==
    /\ Alive /\ httpSrv = "serving" /\ httpListener = "open"
    /\ httpReq[r].pc = "idle"
    /\ \/ httpReq' = [httpReq EXCEPT ![r] = [pc |-> "done", entry |-> <<>>, resp |-> 405]]
       \/ httpReq' = [httpReq EXCEPT ![r] = [pc |-> "done", entry |-> <<>>, resp |-> 400]]
    /\ UNCHANGED << feed, quota, auxVars, fixedVars, chanVars, prsVars, anlVars, altVars, histVars,
                    ingWg, srvVars, tcpConn, nLogs, tcpLost >>

\* select, case i.logChan <- entry: 200 "Log received"
HTTPEnqueue(r) ==
    /\ Alive /\ httpReq[r].pc = "select"
    /\ ~q1Closed /\ Len(q1) < ingestBufferSize
    /\ q1' = Append(q1, httpReq[r].entry[1])
    /\ enq1' = enq1 \cup {httpReq[r].entry[1].Timestamp}
    /\ httpReq' = [httpReq EXCEPT ![r].pc = "done", ![r].resp = 200]
    /\ UNCHANGED << feed, quota, auxVars, fixedVars, q2, q3, q1Closed, q2Closed, q3Closed, prsVars,
                    anlVars, altVars, sentOnClosed, enq2, sent3, ingWg, srvVars,
                    tcpConn, nLogs, tcpLost >>

\* select, case <-i.shutdown: 503
HTTPShutdown(r) ==
    /\ Alive /\ httpReq[r].pc = "select"
    /\ ingShutdown
    /\ httpReq' = [httpReq EXCEPT ![r].pc = "done", ![r].resp = 503]
    /\ UNCHANGED << feed, quota, auxVars, fixedVars, chanVars, prsVars, anlVars, altVars, histVars,
                    ingWg, srvVars, tcpConn, nLogs, tcpLost >>

\* select, case i.logChan <- entry on the closed channel: the send panics;
\* net/http recovers a handler's panic and drops the connection, so the
\* request gets no response
HTTPSendClosed(r) ==
    /\ Alive /\ httpReq[r].pc = "select"
    /\ q1Closed
    /\ sentOnClosed' = sentOnClosed \cup {"Q1"}
    /\ httpReq' = [httpReq EXCEPT ![r].pc = "done"]
    /\ UNCHANGED << feed, quota, auxVars, fixedVars, chanVars, prsVars, anlVars, altVars, enq1, enq2,
                    sent3, ingWg, srvVars, tcpConn, nLogs, tcpLost >>

\* startTCPServer reaches net.Listen: the listener opens, or the error is
\* logged and the goroutine returns
TCPListen ==
    /\ Alive /\ tcpSrv = "start"
    /\ \/ /\ tcpSrv' = "accepting" /\ tcpListener' = "open"
          /\ UNCHANGED ingWg
       \/ /\ tcpSrv' = "exited" /\ tcpListener' = "failed"
          /\ ingWg' = ingWg - 1
    /\ UNCHANGED << feed, quota, auxVars, fixedVars, chanVars, prsVars, anlVars, altVars, histVars,
                    httpSrv, httpListener, httpCloseCalled, httpReq, tcpConn,
                    nLogs, tcpLost >>

\* the goroutine of startTCPServer that waits for shutdown: listener.Close()
TCPClose ==
    /\ Alive /\ ingShutdown /\ tcpListener = "open"
    /\ tcpListener' = "closed"
    /\ UNCHANGED << feed, quota, auxVars, fixedVars, chanVars, prsVars, anlVars, altVars, histVars,
                    ingWg, httpSrv, httpListener, httpCloseCalled, tcpSrv,
                    httpReq, tcpConn, nLogs, tcpLost >>

\* Accept returns a connection: go i.handleTCPConnection(conn)
TCPAccept(c) ==
    /\ Alive /\ tcpSrv = "accepting" /\ tcpListener = "open"
    /\ tcpConn[c].pc = "idle"
    /\ tcpConn' = [tcpConn EXCEPT ![c].pc = "scan"]
    /\ UNCHANGED << feed, quota, auxVars, fixedVars, chanVars, prsVars, anlVars, altVars, histVars,
                    ingWg, srvVars, httpReq, nLogs, tcpLost >>

\* Accept fails on the closed listener and shutdown is closed: return
TCPAcceptReturn ==
    /\ Alive /\ tcpSrv = "accepting" /\ tcpListener = "closed"
    /\ tcpSrv' = "exited" /\ ingWg' = ingWg - 1
    /\ UNCHANGED << feed, quota, auxVars, fixedVars, chanVars, prsVars, anlVars, altVars, histVars,
                    httpSrv, httpListener, httpCloseCalled, tcpListener,
                    httpReq, tcpConn, nLogs, tcpLost >>

\* the scan that does not wait for the send of the line before: the next
\* line is read while the handler still holds an unsent record
TCPScanAhead(c) ==
    /\ Alive /\ tcpConn[c].pc \in {"scan", "select"}
    /\ nLogs < quota
    /\ \E t \in feed :
          tcpConn' = [tcpConn EXCEPT ![c].pc = "select",
                                     ![c].entry = <<LogEntry(t, nLogs + 1)>>,
                                     ![c].lines = Append(@, nLogs + 1)]
    /\ nLogs' = nLogs + 1
    /\ UNCHANGED << feed, quota, auxVars, fixedVars, chanVars, prsVars, anlVars, altVars, histVars,
                    ingWg, srvVars, httpReq, tcpLost >>

\* scanner.Scan: a well-formed line is decoded and reaches the select; at
\* the end of the input the handler returns
TCPScan(c) ==
    /\ Alive /\ tcpConn[c].pc = "scan"
    /\ \/ /\ nLogs < quota
          /\ \E t \in feed :
                tcpConn' = [tcpConn EXCEPT ![c].pc = "select",
                                           ![c].entry = <<LogEntry(t, nLogs + 1)>>,
                                           ![c].lines = Append(@, nLogs + 1)]
          /\ nLogs' = nLogs + 1
       \/ /\ tcpConn' = [tcpConn EXCEPT ![c].pc = "closed"]
          /\ UNCHANGED nLogs
    /\ UNCHANGED << feed, quota, auxVars, fixedVars, chanVars, prsVars, anlVars, altVars, histVars,
                    ingWg, srvVars, httpReq, tcpLost >>

\* the parse error that ends the handler
TCPScanMalformedReturns(c) ==
    /\ Alive /\ tcpConn[c].pc = "scan"
    /\ tcpConn[c].skipped < MaxMalformed
    /\ tcpConn' = [tcpConn EXCEPT ![c].skipped = @ + 1,
                                   ![c].lines = Append(@, 0),
                                   ![c].pc = "closed"]
    /\ UNCHANGED << feed, quota, auxVars, fixedVars, chanVars, prsVars, anlVars, altVars, histVars,
                    ingWg, srvVars, httpReq, nLogs, tcpLost >>

\* scanner.Scan: a malformed line is logged and skipped
TCPScanMalformed(c) ==
    /\ Alive /\ tcpConn[c].pc = "scan"
    /\ tcpConn[c].skipped < MaxMalformed
    /\ tcpConn' = [tcpConn EXCEPT ![c].skipped = @ + 1,
                                   ![c].lines = Append(@, 0)]
    /\ UNCHANGED << feed, quota, auxVars, fixedVars, chanVars, prsVars, anlVars, altVars, histVars,
                    ingWg, srvVars, httpReq, nLogs, tcpLost >>

\* select, case i.logChan <- entry
TCPEnqueue(c) ==
    /\ Alive /\ tcpConn[c].pc = "select"
    /\ ~q1Closed /\ Len(q1) < ingestBufferSize
    /\ q1' = Append(q1, tcpConn[c].entry[1])
    /\ enq1' = enq1 \cup {tcpConn[c].entry[1].Timestamp}
    /\ tcpConn' = [tcpConn EXCEPT ![c].pc = "scan", ![c].entry = <<>>]
    /\ UNCHANGED << feed, quota, auxVars, fixedVars, q2, q3, q1Closed, q2Closed, q3Closed, prsVars,
                    anlVars, altVars, sentOnClosed, enq2, sent3, ingWg, srvVars,
                    httpReq, nLogs, tcpLost >>

\* select, case <-i.shutdown: return
TCPShutdown(c) ==
    /\ Alive /\ tcpConn[c].pc = "select"
    /\ ingShutdown
    /\ tcpConn' = [tcpConn EXCEPT ![c].pc = "closed", ![c].entry = <<>>]
    /\ UNCHANGED << feed, quota, auxVars, fixedVars, chanVars, prsVars, anlVars, altVars, histVars,
                    ingWg, srvVars, httpReq, nLogs, tcpLost >>

\* select, case i.logChan <- entry on the closed channel: the send panics,
\* nothing recovers it, and the process ends
TCPSendClosed(c) ==
    /\ Alive /\ tcpConn[c].pc = "select"
    /\ q1Closed
    /\ sentOnClosed' = sentOnClosed \cup {"Q1"}
    /\ tcpLost' = tcpLost \cup {tcpConn[c].entry[1].Timestamp}
    /\ panicked' = TRUE
    /\ UNCHANGED << feed, quota, auxVars, mainVars, shutVars, closeVars, chanVars, prsVars, anlVars,
                    altVars, enq1, enq2, sent3, ingWg, srvVars, httpReq, tcpConn,
                    nLogs >>

(***************************************************************************)
(* Parser.worker                                                           *)
(***************************************************************************)
\* the receive that reads the head of Q1 and leaves it there
WorkerRecvPeek(w) ==
    /\ Alive /\ worker[w].pc = "recv"
    /\ q1 # <<>>
    /\ worker' = [worker EXCEPT ![w] = [pc |-> "send", parsed |-> <<parse(Head(q1))>>]]
    /\ UNCHANGED << feed, quota, auxVars, fixedVars, chanVars, ingVars,
                    anlVars, altVars, histVars, prsWg >>

\* outer select, case entry, ok := <-p.inputChan with ok: parse it
WorkerRecv(w) ==
    /\ Alive /\ worker[w].pc = "recv"
    /\ q1 # <<>>
    /\ q1' = Tail(q1)
    /\ worker' = [worker EXCEPT ![w] = [pc |-> "send", parsed |-> <<parse(Head(q1))>>]]
    /\ UNCHANGED << feed, quota, auxVars, fixedVars, q2, q3, q1Closed, q2Closed, q3Closed, ingVars,
                    anlVars, altVars, histVars, prsWg >>

\* outer select, the channel is closed and empty: return
WorkerRecvClosed(w) ==
    /\ Alive /\ worker[w].pc = "recv"
    /\ q1 = <<>> /\ q1Closed
    /\ worker' = [worker EXCEPT ![w].pc = "exited"]
    /\ prsWg' = prsWg - 1
    /\ UNCHANGED << feed, quota, auxVars, fixedVars, chanVars, ingVars, anlVars, altVars, histVars >>

\* outer select, case <-p.shutdown: return
WorkerRecvShutdown(w) ==
    /\ Alive /\ worker[w].pc = "recv"
    /\ prsShutdown
    /\ worker' = [worker EXCEPT ![w].pc = "exited"]
    /\ prsWg' = prsWg - 1
    /\ UNCHANGED << feed, quota, auxVars, fixedVars, chanVars, ingVars, anlVars, altVars, histVars >>

\* the send that gives up when Q2 is full: the parsed record is dropped
WorkerSendOrDrop(w) ==
    /\ Alive /\ worker[w].pc = "send"
    /\ ~q2Closed
    /\ IF Len(q2) < parseBufferSize
       THEN /\ q2' = Append(q2, worker[w].parsed[1])
            /\ enq2' = enq2 \cup {worker[w].parsed[1].Timestamp}
       ELSE UNCHANGED << q2, enq2 >>
    /\ worker' = [worker EXCEPT ![w] = [pc |-> "recv", parsed |-> <<>>]]
    /\ UNCHANGED << feed, quota, auxVars, fixedVars, sentOnClosed, q1, q3, q1Closed, q2Closed,
                    q3Closed, ingVars, anlVars, altVars, enq1, sent3, prsWg >>

\* inner select, case p.outputChan <- parsed
WorkerSend(w) ==
    /\ Alive /\ worker[w].pc = "send"
    /\ CanSend(q2, q2Closed, parseBufferSize)
    /\ IF q2Closed
       THEN /\ panicked' = TRUE
            /\ sentOnClosed' = sentOnClosed \cup {"Q2"}
            /\ UNCHANGED << q2, enq2, worker >>
       ELSE /\ q2' = Append(q2, worker[w].parsed[1])
            /\ enq2' = enq2 \cup {worker[w].parsed[1].Timestamp}
            /\ worker' = [worker EXCEPT ![w] = [pc |-> "recv", parsed |-> <<>>]]
            /\ UNCHANGED << panicked, sentOnClosed >>
    /\ UNCHANGED << feed, quota, auxVars, mainVars, shutVars, closeVars, q1, q3, q1Closed, q2Closed,
                    q3Closed, ingVars, anlVars, altVars, enq1, sent3, prsWg >>

\* inner select, case <-p.shutdown: return; the parsed record is dropped
WorkerSendShutdown(w) ==
    /\ Alive /\ worker[w].pc = "send"
    /\ prsShutdown
    /\ worker' = [worker EXCEPT ![w] = [pc |-> "exited", parsed |-> <<>>]]
    /\ prsWg' = prsWg - 1
    /\ UNCHANGED << feed, quota, auxVars, fixedVars, chanVars, ingVars, anlVars, altVars, histVars >>

(***************************************************************************)
(* Analyzer                                                                *)
(***************************************************************************)
\* the receive made while processLog is between two rules of a record, as
\* when each record is evaluated in a goroutine of its own: the unfinished
\* record waits behind the ones in Q2
AnalyzerRecvAnyTime ==
    /\ Alive /\ anlPc \in {"recv", "proc"}
    /\ q2 # <<>>
    /\ q2' = Tail(q2) \o anlLog
    /\ anlLog' = <<Head(q2)>> /\ anlRule' = 1 /\ anlPc' = "proc"
    /\ UNCHANGED << feed, quota, auxVars, fixedVars, q1, q3, q1Closed, q2Closed, q3Closed,
                    ingVars, prsVars, altVars, histVars, anlWg, anlAlert, bits,
                    windowCount, clnPc, evaluated, alerted, sinceReset >>

\* analyze, case logEntry, ok := <-a.inputChan with ok: processLog begins
AnalyzerRecv ==
    /\ Alive /\ anlPc = "recv"
    /\ q2 # <<>>
    /\ q2' = Tail(q2)
    /\ anlLog' = <<Head(q2)>> /\ anlRule' = 1 /\ anlPc' = "proc"
    /\ UNCHANGED << feed, quota, auxVars, fixedVars, q1, q3, q1Closed, q2Closed, q3Closed, ingVars,
                    prsVars, altVars, histVars, anlWg, anlAlert, bits,
                    windowCount, clnPc, evaluated, alerted, sinceReset >>

\* analyze, the channel is closed and empty: return
AnalyzerRecvClosed ==
    /\ Alive /\ anlPc = "recv"
    /\ q2 = <<>> /\ q2Closed
    /\ anlPc' = "exited" /\ anlWg' = anlWg - 1
    /\ UNCHANGED << feed, quota, auxVars, fixedVars, chanVars, ingVars, prsVars, altVars, histVars,
                    anlLog, anlRule, anlAlert, bits, windowCount, clnPc,
                    evaluated, alerted, sinceReset >>

\* analyze, case <-a.shutdown: return
AnalyzerRecvShutdown ==
    /\ Alive /\ anlPc = "recv"
    /\ anlShutdown
    /\ anlPc' = "exited" /\ anlWg' = anlWg - 1
    /\ UNCHANGED << feed, quota, auxVars, fixedVars, chanVars, ingVars, prsVars, altVars, histVars,
                    anlLog, anlRule, anlAlert, bits, windowCount, clnPc,
                    evaluated, alerted, sinceReset >>

\* the increment lost when the key is already counted
IncrementStale(wc, key) ==
    IF key \in DOMAIN wc THEN wc ELSE wc @@ (key :> 1)

\* a.windowCount[countKey]++ ; count := a.windowCount[countKey]
Increment(wc, key) ==
    IF key \in DOMAIN wc THEN [wc EXCEPT ![key] = @ + 1] ELSE wc @@ (key :> 1)

\* history: count has been seen on an alert built for key
Observe(seen, key, count) ==
    IF key \in DOMAIN seen THEN [seen EXCEPT ![key] = Append(@, count)]
    ELSE seen @@ (key :> <<count>>)

\* the Alert processLog builds for rule i (its time stamp is left out)
MakeAlert(i, log, known, count) ==
    [ Severity |-> rules[i].Severity, Reason |-> rules[i].Name, Log |-> log,
      Known |-> known, Count |-> count ]

\* processLog from rule anlRule on: the rules that do not fire are passed
\* over; at the first that fires the Bloom filter is sampled and then added
\* to, the window count is incremented under windowMutex and the Alert is
\* built.  With no rule left processLog returns to analyze.
ProcessLog ==
    /\ Alive /\ anlPc = "proc"
    /\ LET log == anlLog[1]
           firing == FiringFrom(anlRule, log)
       IN IF firing = {}
          THEN /\ anlPc' = "recv" /\ anlLog' = <<>> /\ anlRule' = 1
               /\ evaluated' = evaluated \cup {log.Timestamp}
               /\ UNCHANGED << anlAlert, bits, windowCount, alerted, sinceReset,
                               bloomUsers >>
          ELSE LET i == Min(firing)
                   key == bloomKey(i, log)
                   isKnownPattern == Contains(bits, key)
                   wc == Increment(windowCount, key)
                   alert == MakeAlert(i, log, isKnownPattern, wc[key])
               IN /\ bits' = Add(bits, key)
                  /\ bloomUsers' = bloomUsers \cup {"analyze"}
                  /\ windowCount' = wc
                  /\ anlAlert' = <<alert>>
                  /\ alerted' = alerted \cup {key}
                  /\ sinceReset' = Observe(sinceReset, key, alert.Count)
                  /\ anlRule' = i /\ anlPc' = "send"
                  /\ UNCHANGED << anlLog, evaluated >>
    /\ UNCHANGED << feed, quota, fileBytes, windowMutex, abandoned, fixedVars, chanVars, ingVars, prsVars, altVars, histVars,
                    anlWg, clnPc >>

\* processLog's select, case a.alertChan <- alert: on to the next rule
AnalyzerSend ==
    /\ Alive /\ anlPc = "send"
    /\ CanSend(q3, q3Closed, alertBufferSize)
    /\ IF q3Closed
       THEN /\ panicked' = TRUE
            /\ sentOnClosed' = sentOnClosed \cup {"Q3"}
            /\ UNCHANGED << q3, anlAlert, anlRule, anlPc, sent3 >>
       ELSE /\ q3' = Append(q3, anlAlert[1])
            /\ sent3' = Append(sent3, anlAlert[1])
            /\ anlAlert' = <<>> /\ anlRule' = anlRule + 1 /\ anlPc' = "proc"
            /\ UNCHANGED << panicked, sentOnClosed >>
    /\ UNCHANGED << feed, quota, auxVars, mainVars, shutVars, closeVars, q1, q2, q1Closed, q2Closed,
                    q3Closed, ingVars, prsVars, altVars, enq1, enq2, anlWg,
                    anlLog, bits, windowCount, clnPc, evaluated, alerted, sinceReset >>

\* the cancelled send that skips the alert and goes on with the next rule
AnalyzerSendShutdownNextRule ==
    /\ Alive /\ anlPc = "send"
    /\ anlShutdown
    /\ abandoned' = abandoned \cup {<<anlAlert[1].Log.Timestamp, anlAlert[1].Reason>>}
    /\ anlAlert' = <<>> /\ anlRule' = anlRule + 1 /\ anlPc' = "proc"
    /\ UNCHANGED << feed, quota, fileBytes, windowMutex, bloomUsers, fixedVars, chanVars,
                    ingVars, prsVars, altVars, histVars,
                    anlWg, anlLog, bits, windowCount, clnPc, evaluated, alerted,
                    sinceReset >>

\* processLog's select, case <-a.shutdown: processLog returns, the alert and
\* the remaining rules are abandoned, and analyze goes round its loop
AnalyzerSendShutdown ==
    /\ Alive /\ anlPc = "send"
    /\ anlShutdown
    /\ abandoned' = abandoned \cup {<<anlAlert[1].Log.Timestamp, anlAlert[1].Reason>>}
    /\ anlAlert' = <<>> /\ anlLog' = <<>> /\ anlRule' = 1 /\ anlPc' = "recv"
    /\ UNCHANGED << feed, quota, fileBytes, windowMutex, bloomUsers, fixedVars, chanVars, ingVars, prsVars, altVars, histVars,
                    anlWg, bits, windowCount, clnPc, evaluated, alerted, sinceReset >>

\* the reset that also clears the Bloom filter
CleanupTickClearsBloom ==
    /\ Alive /\ clnPc = "loop"
    /\ windowCount' = <<>>
    /\ sinceReset' = <<>>
    /\ bits' = Clear(bits)
    /\ bloomUsers' = bloomUsers \cup {"cleanupWindow"}
    /\ alerted' = {}
    /\ UNCHANGED << feed, quota, fileBytes, windowMutex, abandoned, fixedVars, chanVars,
                    ingVars, prsVars, altVars, histVars,
                    anlWg, anlPc, anlLog, anlRule, anlAlert, clnPc, evaluated >>

\* cleanupWindow, case <-ticker.C: a fresh map under windowMutex
CleanupTick ==
    /\ Alive /\ clnPc = "loop"
    /\ windowCount' = <<>>
    /\ sinceReset' = <<>>
    /\ UNCHANGED << feed, quota, auxVars, fixedVars, chanVars, ingVars, prsVars, altVars, histVars,
                    anlWg, anlPc, anlLog, anlRule, anlAlert, bits, clnPc,
                    evaluated, alerted >>

\* cleanupWindow, case <-a.shutdown: return
CleanupShutdown ==
    /\ Alive /\ clnPc = "loop"
    /\ anlShutdown
    /\ clnPc' = "exited" /\ anlWg' = anlWg - 1
    /\ UNCHANGED << feed, quota, auxVars, fixedVars, chanVars, ingVars, prsVars, altVars, histVars,
                    anlPc, anlLog, anlRule, anlAlert, bits, windowCount,
                    evaluated, alerted, sinceReset >>

(***************************************************************************)
(* Alerter                                                                 *)
(***************************************************************************)
\* processAlerts, case alert, ok := <-a.alertChan with ok
AlerterRecv ==
    /\ Alive /\ altPc = "recv"
    /\ q3 # <<>>
    /\ q3' = Tail(q3)
    /\ altAlert' = <<Head(q3)>> /\ altPc' = "output"
    /\ UNCHANGED << feed, quota, auxVars, fixedVars, q1, q2, q1Closed, q2Closed, q3Closed, ingVars,
                    prsVars, anlVars, histVars, altWg, file, fileData, outVars >>

\* what a.file.Write appends to the file: the JSON of an alert (all of it,
\* or a part of it when the write fails midway), or the newline
JsonChunk(alert) == [Bytes |-> "json", Of |-> <<alert>>]
PartialChunk(alert) == [Bytes |-> "partial json", Of |-> <<alert>>]
NewlineChunk == [Bytes |-> "newline", Of |-> <<>>]

\* outputAlert: under a.mu the alert is marshalled, printed and written to
\* the file, its JSON and then a newline
outputAlert ==
    /\ Alive /\ altPc = "output"
    /\ stdout' = Append(stdout, altAlert[1])
    /\ fileData' = Append(fileData, altAlert[1])
    /\ fileBytes' = fileBytes \o <<JsonChunk(altAlert[1]), NewlineChunk>>
    /\ altAlert' = <<>> /\ altPc' = "recv"
    /\ UNCHANGED << feed, quota, windowMutex, abandoned, bloomUsers, fixedVars, chanVars, ingVars, prsVars, anlVars, histVars,
                    altWg, file, logged, writeFailed >>

\* the marshal error that is logged but not returned on
outputAlertMarshalErrorGoesOn ==
    /\ Alive /\ altPc = "output"
    /\ logged' = logged \cup {<<"marshal", altAlert[1].Log.Timestamp, altAlert[1].Reason>>}
    /\ stdout' = Append(stdout, altAlert[1])
    /\ fileData' = Append(fileData, altAlert[1])
    /\ fileBytes' = fileBytes \o <<JsonChunk(altAlert[1]), NewlineChunk>>
    /\ altAlert' = <<>> /\ altPc' = "recv"
    /\ UNCHANGED << feed, quota, windowMutex, abandoned, bloomUsers, fixedVars, chanVars,
                    ingVars, prsVars, anlVars,
                    histVars, altWg, file, writeFailed >>

\* outputAlert, json.MarshalIndent returns an error: "Failed to marshal
\* alert" is logged and outputAlert returns
outputAlertMarshalError ==
    /\ Alive /\ altPc = "output"
    /\ logged' = logged \cup {<<"marshal", altAlert[1].Log.Timestamp, altAlert[1].Reason>>}
    /\ altAlert' = <<>> /\ altPc' = "recv"
    /\ UNCHANGED << feed, quota, auxVars, fixedVars, chanVars, ingVars, prsVars, anlVars, histVars,
                    altWg, file, fileData, stdout, writeFailed >>

\* outputAlert, one of the two a.file.Write calls returns an error: the
\* alert is printed, the results of Write are not looked at, the second
\* Write is made whatever the first did, and outputAlert returns.  The file
\* gets none, a part or all of the JSON and, possibly, the newline, but not
\* the whole record.
outputAlertWriteError ==
    /\ Alive /\ altPc = "output"
    /\ stdout' = Append(stdout, altAlert[1])
    /\ writeFailed' = writeFailed \cup {<<altAlert[1].Log.Timestamp, altAlert[1].Reason>>}
    /\ \E json \in { <<>>, <<PartialChunk(altAlert[1])>>, <<JsonChunk(altAlert[1])>> },
          nl \in { <<>>, <<NewlineChunk>> } :
          /\ ~(json = <<JsonChunk(altAlert[1])>> /\ nl = <<NewlineChunk>>)
          /\ fileBytes' = fileBytes \o json \o nl
    /\ altAlert' = <<>> /\ altPc' = "recv"
    /\ UNCHANGED << feed, quota, windowMutex, abandoned, bloomUsers, fixedVars, chanVars, ingVars, prsVars, anlVars, histVars,
                    altWg, file, fileData, logged >>

\* processAlerts, the channel is closed and empty: return
AlerterRecvClosed ==
    /\ Alive /\ altPc = "recv"
    /\ q3 = <<>> /\ q3Closed
    /\ altPc' = "exited" /\ altWg' = altWg - 1
    /\ UNCHANGED << feed, quota, auxVars, fixedVars, chanVars, ingVars, prsVars, anlVars, histVars,
                    altAlert, file, fileData, outVars >>

\* processAlerts, case <-a.shutdown: return
AlerterRecvShutdown ==
    /\ Alive /\ altPc = "recv"
    /\ altShutdown
    /\ altPc' = "exited" /\ altWg' = altWg - 1
    /\ UNCHANGED << feed, quota, auxVars, fixedVars, chanVars, ingVars, prsVars, anlVars, histVars,
                    altAlert, file, fileData, outVars >>

(***************************************************************************)
(* main: the termination signal and the shutdown sequence                  *)
(***************************************************************************)
MainUnchanged ==
    UNCHANGED << feed, quota, auxVars, panicked, startResult, q1, q2, q3, ingVars, prsVars, anlVars,
                 altWg, altPc, altAlert, fileData, outVars, histVars >>

\* <-sigChan
Signal ==
    /\ Alive /\ mainPc = "running"
    /\ mainPc' = "ingStop"
    /\ UNCHANGED << q1Closed, q2Closed, q3Closed, shutVars, closeVars, file >>
    /\ MainUnchanged

\* Ingestor.Stop: close(i.shutdown)
IngestorStop ==
    /\ Alive /\ mainPc = "ingStop"
    /\ ingShutdown' = TRUE
    /\ mainPc' = "ingWait"
    /\ UNCHANGED << q1Closed, q2Closed, q3Closed, prsShutdown, anlShutdown,
                    altShutdown, closeVars, file >>
    /\ MainUnchanged

\* Ingestor.Stop: i.wg.Wait() returns, Stop returns
IngestorStopReturn ==
    /\ Alive /\ mainPc = "ingWait"
    /\ ingWg = 0
    /\ mainPc' = "closeQ1"
    /\ UNCHANGED << q1Closed, q2Closed, q3Closed, shutVars, closeVars, file >>
    /\ MainUnchanged

\* close(ingestChan)
CloseQ1 ==
    /\ Alive /\ mainPc = "closeQ1"
    /\ q1Closed' = TRUE
    /\ q1AtClose' = { q1[k].Timestamp : k \in 1..Len(q1) }
    /\ mainPc' = "prsStop"
    /\ UNCHANGED << q2Closed, q3Closed, shutVars, q2AtClose, q3AtClose, file >>
    /\ MainUnchanged

\* Parser.Stop: close(p.shutdown)
ParserStop ==
    /\ Alive /\ mainPc = "prsStop"
    /\ prsShutdown' = TRUE
    /\ mainPc' = "prsWait"
    /\ UNCHANGED << q1Closed, q2Closed, q3Closed, ingShutdown, anlShutdown,
                    altShutdown, closeVars, file >>
    /\ MainUnchanged

\* Stop that returns without waiting for the workers
ParserStopNoWait ==
    /\ Alive /\ mainPc = "prsWait"
    /\ mainPc' = "closeQ2"
    /\ UNCHANGED << q1Closed, q2Closed, q3Closed, shutVars, closeVars, file >>
    /\ MainUnchanged

\* Parser.Stop: p.wg.Wait() returns, Stop returns
ParserStopReturn ==
    /\ Alive /\ mainPc = "prsWait"
    /\ prsWg = 0
    /\ mainPc' = "closeQ2"
    /\ UNCHANGED << q1Closed, q2Closed, q3Closed, shutVars, closeVars, file >>
    /\ MainUnchanged

\* close(parseChan)
CloseQ2 ==
    /\ Alive /\ mainPc = "closeQ2"
    /\ q2Closed' = TRUE
    /\ q2AtClose' = { q2[k].Timestamp : k \in 1..Len(q2) }
    /\ mainPc' = "anlStop"
    /\ UNCHANGED << q1Closed, q3Closed, shutVars, q1AtClose, q3AtClose, file >>
    /\ MainUnchanged

\* Analyzer.Stop: close(a.shutdown)
AnalyzerStop ==
    /\ Alive /\ mainPc = "anlStop"
    /\ anlShutdown' = TRUE
    /\ mainPc' = "anlWait"
    /\ UNCHANGED << q1Closed, q2Closed, q3Closed, ingShutdown, prsShutdown,
                    altShutdown, closeVars, file >>
    /\ MainUnchanged

\* Analyzer.Stop: a.wg.Wait() returns, Stop returns
AnalyzerStopReturn ==
    /\ Alive /\ mainPc = "anlWait"
    /\ anlWg = 0
    /\ mainPc' = "closeQ3"
    /\ UNCHANGED << q1Closed, q2Closed, q3Closed, shutVars, closeVars, file >>
    /\ MainUnchanged

\* close(alertChan)
CloseQ3 ==
    /\ Alive /\ mainPc = "closeQ3"
    /\ q3Closed' = TRUE
    /\ q3AtClose' = { <<q3[k].Log.Timestamp, q3[k].Reason>> : k \in 1..Len(q3) }
    /\ mainPc' = "altStop"
    /\ UNCHANGED << q1Closed, q2Closed, shutVars, q1AtClose, q2AtClose, file >>
    /\ MainUnchanged

\* Alerter.Stop: close(a.shutdown)
AlerterStop ==
    /\ Alive /\ mainPc = "altStop"
    /\ altShutdown' = TRUE
    /\ mainPc' = "altWait"
    /\ UNCHANGED << q1Closed, q2Closed, q3Closed, ingShutdown, prsShutdown,
                    anlShutdown, closeVars, file >>
    /\ MainUnchanged

\* Stop that closes the file without waiting for processAlerts
AlerterStopNoWait ==
    /\ Alive /\ mainPc = "altWait"
    /\ file' = "closed"
    /\ mainPc' = "done"
    /\ UNCHANGED << q1Closed, q2Closed, q3Closed, shutVars, closeVars >>
    /\ MainUnchanged

\* Alerter.Stop: a.wg.Wait() returns, the file is closed, Stop returns and
\* main returns
AlerterStopReturn ==
    /\ Alive /\ mainPc = "altWait"
    /\ altWg = 0
    /\ file' = "closed"
    /\ mainPc' = "done"
    /\ UNCHANGED << q1Closed, q2Closed, q3Closed, shutVars, closeVars >>
    /\ MainUnchanged

(***************************************************************************)
(* Specifications                                                          *)
(***************************************************************************)
\* what the clients do with well-formed records
Input ==
    \/ \E r \in Requests : HTTPRequest(r)
    \/ \E c \in Conns : TCPAccept(c)
    \/ \E c \in Conns : TCPScan(c)

\* what the clients do with anything else
BadInput ==
    \/ \E r \in Requests : HTTPBadRequest(r)
    \/ \E c \in Conns : TCPScanMalformed(c)

\* what the process does, window resets apart
Step ==
    \/ IngestorStart \/ ParserStart \/ AnalyzerStart \/ AlerterStart
    \/ HTTPListen \/ HTTPClose \/ HTTPServeReturn
    \/ TCPListen \/ TCPClose \/ TCPAcceptReturn
    \/ \E r \in Requests : HTTPEnqueue(r)
    \/ \E r \in Requests : HTTPShutdown(r)
    \/ \E r \in Requests : HTTPSendClosed(r)
    \/ \E c \in Conns : TCPEnqueue(c)
    \/ \E c \in Conns : TCPShutdown(c)
    \/ \E c \in Conns : TCPSendClosed(c)
    \/ \E w \in Workers : WorkerRecv(w)
    \/ \E w \in Workers : WorkerRecvClosed(w)
    \/ \E w \in Workers : WorkerRecvShutdown(w)
    \/ \E w \in Workers : WorkerSend(w)
    \/ \E w \in Workers : WorkerSendShutdown(w)
    \/ AnalyzerRecv \/ AnalyzerRecvClosed \/ AnalyzerRecvShutdown
    \/ ProcessLog \/ AnalyzerSend \/ AnalyzerSendShutdown
    \/ CleanupShutdown
    \/ AlerterRecv \/ outputAlert \/ AlerterRecvClosed \/ AlerterRecvShutdown
    \/ IngestorStop \/ IngestorStopReturn \/ CloseQ1
    \/ ParserStop \/ ParserStopReturn \/ CloseQ2
    \/ AnalyzerStop \/ AnalyzerStopReturn \/ CloseQ3
    \/ AlerterStop \/ AlerterStopReturn

\* every action of the program and of its clients
Next ==
    \/ Input \/ BadInput \/ Signal \/ Step \/ CleanupTick
    \/ outputAlertMarshalError \/ outputAlertWriteError

Spec == Init /\ [][Next]_vars

\* The runs in which the clients send well-formed records only and no window
\* boundary falls: start-up, traffic, the termination signal at any moment
\* after start-up, and the shutdown sequence.
NextShutdown == Input \/ Signal \/ Step

ShutdownSpec == Init /\ [][NextShutdown]_vars

\* the termination signal has been received: main is past <-sigChan
Signalled ==
    mainPc \notin {"ingStart", "prsStart", "anlStart", "altStart", "running", "fatal"}

\* The same runs with no new input once the signal has been received.
QuietInput == ~Signalled /\ Input

NextQuiet == QuietInput \/ Signal \/ Step

QuietSpec == Init /\ [][NextQuiet]_vars

\* The ingestor with one connection and one record more, the records
\* raising no alert: traffic on two connections and over HTTP, malformed
\* lines, the parser workers and the rule evaluation taking the records on.
IngestInit == InitFor({LogOk}, MaxLogs + 1)

NextIngest ==
    \/ IngestorStart \/ ParserStart \/ AnalyzerStart \/ AlerterStart
    \/ HTTPListen \/ TCPListen
    \/ \E r \in Requests : HTTPRequest(r)
    \/ \E r \in Requests : HTTPEnqueue(r)
    \/ \E c \in WideConns : TCPAccept(c)
    \/ \E c \in WideConns : TCPScan(c)
    \/ \E c \in WideConns : TCPScanMalformed(c)
    \/ \E c \in WideConns : TCPEnqueue(c)
    \/ \E w \in Workers : WorkerRecv(w)
    \/ \E w \in Workers : WorkerSend(w)
    \/ AnalyzerRecv \/ ProcessLog

IngestSpec == IngestInit /\ [][NextIngest]_vars

\* The Bloom filter on its own: from the empty filter NewBloomFilter returns,
\* any sequence of Add and Clear over the keys the rules and sources give.
BloomItems == DOMAIN PositionTable

BloomAdd(item) ==
    /\ bits' = Add(bits, item)
    /\ alerted' = alerted \cup {item}
    /\ UNCHANGED << feed, quota, auxVars, fixedVars, chanVars, ingVars, prsVars, altVars, histVars,
                    anlWg, anlPc, anlLog, anlRule, anlAlert, windowCount, clnPc,
                    evaluated, sinceReset >>

BloomClear ==
    /\ bits' = Clear(bits)
    /\ alerted' = {}
    /\ UNCHANGED << feed, quota, auxVars, fixedVars, chanVars, ingVars, prsVars, altVars, histVars,
                    anlWg, anlPc, anlLog, anlRule, anlAlert, windowCount, clnPc,
                    evaluated, sinceReset >>

NextBloom == (\E item \in BloomItems : BloomAdd(item)) \/ BloomClear

BloomSpec == Init /\ [][NextBloom]_vars

\* what the process does while no termination signal arrives and nothing
\* fails in the alerter
RunStep ==
    \/ IngestorStart \/ ParserStart \/ AnalyzerStart \/ AlerterStart
    \/ HTTPListen \/ TCPListen
    \/ \E r \in Requests : HTTPEnqueue(r)
    \/ \E c \in Conns : TCPEnqueue(c)
    \/ \E w \in Workers : WorkerRecv(w)
    \/ \E w \in Workers : WorkerSend(w)
    \/ AnalyzerRecv \/ ProcessLog \/ AnalyzerSend
    \/ AlerterRecv \/ outputAlert

\* The runs without a termination signal: start-up, traffic of well-formed
\* and malformed records, and window resets at any moment.
NextRun == Input \/ BadInput \/ RunStep \/ CleanupTick

RunSpec == RunInit /\ [][NextRun]_vars

\* The runs without a termination signal in which serializing an alert or
\* writing it to the file may fail.
NextFault ==
    \/ Input \/ RunStep
    \/ outputAlertMarshalError \/ outputAlertWriteError

FaultSpec == Init /\ [][NextFault]_vars

\* The runs without a termination signal under the scheduling Go gives:
\* main and every goroutine that can take a step eventually takes one.
FairRunSpec ==
    /\ Init /\ [][Input \/ RunStep]_vars
    /\ WF_vars(IngestorStart \/ ParserStart \/ AnalyzerStart \/ AlerterStart)
    /\ \A w \in Workers : WF_vars(WorkerRecv(w) \/ WorkerSend(w))
    /\ WF_vars(AnalyzerRecv \/ ProcessLog \/ AnalyzerSend)
    /\ WF_vars(AlerterRecv \/ outputAlert)

\* The runs of ShutdownSpec with records on which two rules fire, so that a
\* send onto Q3 can be cancelled with a rule still to be tried.
AbandonSpec == InitWith({LogBreach}) /\ [][NextShutdown]_vars

(***************************************************************************)
(* processLog, cleanupWindow and outputAlert statement by statement, for   *)
(* the runs that look at what the goroutines share: the Bloom filter, the  *)
(* windowCount map with its mutex, and the alert file.  anlPc is "lock"    *)
(* while processLog waits for windowMutex and "count" while it holds it;   *)
(* clnPc is "reset" while cleanupWindow holds it; altPc is "newline"       *)
(* between the two writes of outputAlert.                                  *)
(***************************************************************************)
\* processLog up to windowMutex.Lock(): the rules that do not fire are
\* passed over; at the first that fires the Bloom filter is sampled and
\* added to.  anlAlert holds the Alert in the making, not yet counted.
processLogBloom ==
    /\ Alive /\ anlPc = "proc"
    /\ LET log == anlLog[1]
           firing == FiringFrom(anlRule, log)
       IN IF firing = {}
          THEN /\ anlPc' = "recv" /\ anlLog' = <<>> /\ anlRule' = 1
               /\ evaluated' = evaluated \cup {log.Timestamp}
               /\ UNCHANGED << anlAlert, bits, alerted, bloomUsers >>
          ELSE LET i == Min(firing)
                   key == bloomKey(i, log)
                   isKnownPattern == Contains(bits, key)
               IN /\ bits' = Add(bits, key)
                  /\ bloomUsers' = bloomUsers \cup {"analyze"}
                  /\ alerted' = alerted \cup {key}
                  /\ anlAlert' = <<MakeAlert(i, log, isKnownPattern, 0)>>
                  /\ anlRule' = i /\ anlPc' = "lock"
                  /\ UNCHANGED << anlLog, evaluated >>
    /\ UNCHANGED << feed, quota, fileBytes, windowMutex, abandoned, fixedVars, chanVars,
                    ingVars, prsVars, altVars, histVars, anlWg, clnPc,
                    windowCount, sinceReset >>

\* the increment made without taking the mutex
processLogLockSkipped ==
    /\ Alive /\ anlPc = "lock"
    /\ anlPc' = "count"
    /\ UNCHANGED << feed, quota, fileBytes, windowMutex, abandoned, bloomUsers, fixedVars,
                    chanVars, ingVars, prsVars, altVars, histVars, anlWg, anlLog,
                    anlRule, anlAlert, bits, windowCount, clnPc, evaluated,
                    alerted, sinceReset >>

\* a.windowMutex.Lock() returns
processLogLock ==
    /\ Alive /\ anlPc = "lock"
    /\ windowMutex = "free"
    /\ windowMutex' = "analyze"
    /\ anlPc' = "count"
    /\ UNCHANGED << feed, quota, fileBytes, abandoned, bloomUsers, fixedVars, chanVars,
                    ingVars, prsVars, altVars, histVars, anlWg, anlLog, anlRule,
                    anlAlert, bits, windowCount, clnPc, evaluated, alerted,
                    sinceReset >>

\* a.windowCount[countKey]++, count is read, a.windowMutex.Unlock(), and the
\* Alert is built
processLogCount ==
    /\ Alive /\ anlPc = "count"
    /\ LET key == bloomKey(anlRule, anlLog[1])
           wc == Increment(windowCount, key)
       IN /\ windowCount' = wc
          /\ anlAlert' = <<[anlAlert[1] EXCEPT !.Count = wc[key]]>>
          /\ sinceReset' = Observe(sinceReset, key, wc[key])
    /\ windowMutex' = "free"
    /\ anlPc' = "send"
    /\ UNCHANGED << feed, quota, fileBytes, abandoned, bloomUsers, fixedVars, chanVars,
                    ingVars, prsVars, altVars, histVars, anlWg, anlLog, anlRule,
                    bits, clnPc, evaluated, alerted >>

\* cleanupWindow, case <-ticker.C: a.windowMutex.Lock() returns
cleanupWindowLock ==
    /\ Alive /\ clnPc = "loop"
    /\ windowMutex = "free"
    /\ windowMutex' = "cleanupWindow"
    /\ clnPc' = "reset"
    /\ UNCHANGED << feed, quota, fileBytes, abandoned, bloomUsers, fixedVars, chanVars,
                    ingVars, prsVars, altVars, histVars, anlWg, anlPc, anlLog,
                    anlRule, anlAlert, bits, windowCount, evaluated, alerted,
                    sinceReset >>

\* cleanupWindow: the fresh map, then a.windowMutex.Unlock()
cleanupWindowReset ==
    /\ Alive /\ clnPc = "reset"
    /\ windowCount' = <<>>
    /\ sinceReset' = <<>>
    /\ windowMutex' = "free"
    /\ clnPc' = "loop"
    /\ UNCHANGED << feed, quota, fileBytes, abandoned, bloomUsers, fixedVars, chanVars,
                    ingVars, prsVars, altVars, histVars, anlWg, anlPc, anlLog,
                    anlRule, anlAlert, bits, evaluated, alerted >>

\* outputAlert up to its first write: the alert is marshalled and printed,
\* and a.file.Write(alertJSON) appends the JSON
outputAlertWriteJson ==
    /\ Alive /\ altPc = "output"
    /\ stdout' = Append(stdout, altAlert[1])
    /\ fileBytes' = Append(fileBytes, JsonChunk(altAlert[1]))
    /\ altPc' = "newline"
    /\ UNCHANGED << feed, quota, windowMutex, abandoned, bloomUsers, fixedVars, chanVars,
                    ingVars, prsVars, anlVars, histVars, altWg, altAlert, file,
                    fileData, logged, writeFailed >>

\* the second write left out
outputAlertSkipNewline ==
    /\ Alive /\ altPc = "newline"
    /\ fileData' = Append(fileData, altAlert[1])
    /\ altAlert' = <<>> /\ altPc' = "recv"
    /\ UNCHANGED << feed, quota, auxVars, fixedVars, chanVars, ingVars, prsVars,
                    anlVars, histVars, altWg, file, outVars >>

\* a.file.Write([]byte("\n")), and outputAlert returns
outputAlertWriteNewline ==
    /\ Alive /\ altPc = "newline"
    /\ fileBytes' = Append(fileBytes, NewlineChunk)
    /\ fileData' = Append(fileData, altAlert[1])
    /\ altAlert' = <<>> /\ altPc' = "recv"
    /\ UNCHANGED << feed, quota, windowMutex, abandoned, bloomUsers, fixedVars, chanVars,
                    ingVars, prsVars, anlVars, histVars, altWg, file, outVars >>

\* The runs without a termination signal, statement by statement, with
\* window resets at any moment and alerts whose serialization fails.
NextFine ==
    \/ Input
    \/ IngestorStart \/ ParserStart \/ AnalyzerStart \/ AlerterStart
    \/ HTTPListen \/ TCPListen
    \/ \E r \in Requests : HTTPEnqueue(r)
    \/ \E c \in Conns : TCPEnqueue(c)
    \/ \E w \in Workers : WorkerRecv(w)
    \/ \E w \in Workers : WorkerSend(w)
    \/ AnalyzerRecv \/ processLogBloom \/ processLogLock \/ processLogCount
    \/ AnalyzerSend
    \/ cleanupWindowLock \/ cleanupWindowReset
    \/ AlerterRecv \/ outputAlertWriteJson \/ outputAlertWriteNewline
    \/ outputAlertMarshalError

FineSpec == Init /\ [][NextFine]_vars

\* The words the clients build their messages from when the runs look at
\* what Parser.parse extracts:
\*   "!boom"  "Boom."  "!abc"  "a.b,c"  "503"  "ERROR"  "404"  "x503"
ParseWords ==
    { <<33, 98, 111, 111, 109>>, <<66, 111, 111, 109, 46>>,
      <<33, 97, 98, 99>>, <<97, 46, 98, 44, 99>>,
      <<53, 48, 51>>, <<69, 82, 82, 79, 82>>, <<52, 48, 52>>,
      <<120, 53, 48, 51>> }

\* a message is one word, or two words with a space or a tab and a space
\* between them
ParseMessages ==
    ParseWords
    \cup { a \o sep \o b : a \in ParseWords, b \in ParseWords,
                           sep \in { <<32>>, <<9, 32>> } }

\* one INFO record from "db" whose message is any of these
ParseInit ==
    \E m \in ParseMessages :
        InitFor({[Level |-> "INFO", Source |-> <<100, 98>>, Message |-> m]}, 1)

\* The record is sent over HTTP or TCP, parsed by a worker, evaluated
\* against the rules, and its alerts are output.
NextParse == Input \/ RunStep

ParseSpec == ParseInit /\ [][NextParse]_vars

(***************************************************************************)
(* Properties                                                              *)
(***************************************************************************)
\* main's positions once each Stop has returned
AfterIngestorStop ==
    {"closeQ1", "prsStop", "prsWait", "closeQ2", "anlStop", "anlWait",
     "closeQ3", "altStop", "altWait", "done"}
AfterParserStop ==
    {"closeQ2", "anlStop", "anlWait", "closeQ3", "altStop", "altWait", "done"}
AfterAnalyzerStop == {"closeQ3", "altStop", "altWait", "done"}
\* the key of an alert
KeyOf(alert) == alert.Reason \o <<58>> \o alert.Log.Source

\* C1: no goroutine ever sends on Q1, Q2 or Q3 after main has closed it.
C1_NoSendOnClosedQueue == sentOnClosed = {}

\* C2: once Ingestor.Stop has returned both listeners are closed and no HTTP
\* request handler and no TCP connection handler is still running.
C2_StopWaitsForHandlers ==
    mainPc \in AfterIngestorStop =>
        /\ httpListener # "open" /\ tcpListener # "open"
        /\ \A r \in Requests : httpReq[r].pc # "select"
        /\ \A c \in Conns : tcpConn[c].pc \notin {"scan", "select"}

\* C3: once Parser.Stop has returned, every RawLog that was in Q1 when Q1 was
\* closed has been parsed and placed on Q2.
C3_ParserDrainsQ1 ==
    mainPc \in AfterParserStop => q1AtClose \subseteq enq2

\* C4: once Analyzer.Stop has returned, every ParsedLog that was in Q2 when
\* Q2 was closed has been evaluated against the rules and all its alerts
\* have been placed on Q3.
C4_AnalyzerDrainsQ2 ==
    mainPc \in AfterAnalyzerStop => q2AtClose \subseteq evaluated

\* C5: once Alerter.Stop has closed the file and returned, every Alert that
\* was in Q3 when Q3 was closed has been written to the file.
C5_AlerterDrainsQ3 ==
    mainPc = "done" =>
        q3AtClose \subseteq
            { <<fileData[k].Log.Timestamp, fileData[k].Reason>> : k \in 1..Len(fileData) }

\* C6: after the termination signal the shutdown sequence completes: with no
\* new input, the process can always take a further step until main has
\* returned from the last Stop.
C6_ShutdownCompletes ==
    (Signalled /\ mainPc # "done") => ENABLED Step

\* C7: Ingestor.Start returns an error whenever a listener cannot be opened,
\* and once it has returned success both listeners are accepting (until
\* shutdown begins).
C7_StartReportsBindFailure ==
    /\ (httpListener = "failed" \/ tcpListener = "failed") => startResult = "error"
    /\ (startResult = "nil" /\ ~ingShutdown) =>
           (httpListener = "open" /\ tcpListener = "open")

\* C8: once the ingestor's shutdown has begun, a POST that is still at its
\* enqueue is answered 503 and its record is not placed on Q1.
C8_Answer503OnceShutdownBegun ==
    [][\A r \in Requests :
          (ingShutdown /\ httpReq[r].pc = "select" /\ httpReq'[r].pc = "done")
              => /\ httpReq'[r].resp = 503
                 /\ httpReq[r].entry[1].Timestamp \notin enq1']_vars

\* the timestamps of the records a handler holds at its select
HeldAtSelect ==
    { httpReq[r].entry[1].Timestamp : r \in {x \in Requests : httpReq[x].pc = "select"} }
    \cup { tcpConn[c].entry[1].Timestamp : c \in {x \in Conns : tcpConn[x].pc = "select"} }

\* C9: a well-formed POST is answered 200 exactly when its record was placed
\* on Q1 and 503 exactly when it was not; a well-formed TCP line is placed on
\* Q1 or its handler returns on the shutdown signal; and before shutdown is
\* signalled every record read is on its way: placed, or held by a handler
\* blocked at its select.
C9_EnqueueOrShutdownObserved ==
    /\ \A r \in Requests :
          (httpReq[r].pc = "done" /\ httpReq[r].entry # <<>>) =>
              /\ httpReq[r].resp = 200 <=> httpReq[r].entry[1].Timestamp \in enq1
              /\ httpReq[r].resp = 503 <=> httpReq[r].entry[1].Timestamp \notin enq1
    /\ tcpLost = {}
    /\ ~ingShutdown => (1..nLogs) \subseteq (enq1 \cup HeldAtSelect)

\* processLog has just built an alert
AlertBuilt == anlPc = "proc" /\ anlPc' = "send"

\* C10 as stated: the first Alert for a key K has is_known_pattern = false
\* and every later Alert for K has is_known_pattern = true.
C10_FirstUnknownLaterKnown ==
    [][AlertBuilt =>
          (anlAlert'[1].Known <=> KeyOf(anlAlert'[1]) \in alerted)]_vars

\* C10 as amended: every alert built for K after an earlier one for K has
\* is_known_pattern = true, and an alert has is_known_pattern = true exactly
\* when every bit position of its key was set by the keys alerted before it;
\* so the first alert for K is false unless other keys cover K's positions.
C10_KnownIffPositionsSet ==
    [][AlertBuilt =>
          LET key == KeyOf(anlAlert'[1])
          IN /\ key \in alerted => anlAlert'[1].Known
             /\ anlAlert'[1].Known <=>
                   BitPositions(key) \subseteq
                       UNION { BitPositions(k) : k \in alerted }]_vars

\* C10 witness: the file holds two alerts for one key, the first unknown and
\* the second known.
C10_Witness ==
    /\ Len(fileData) = 2
    /\ KeyOf(fileData[1]) = KeyOf(fileData[2])
    /\ ~fileData[1].Known /\ fileData[2].Known

\* C11: the Bloom filter has no false negatives (Contains is true of every
\* item added since the filter was last empty), an Add never changes a bit
\* from 1 to 0, and after Clear every bit is 0.
C11_NoFalseNegativeMonotone ==
    /\ [](\A x \in alerted : Contains(bits, x))
    /\ [](alerted = {} => bits = {})
    /\ [][alerted' # {} => bits \subseteq bits']_vars

\* C11 witness: three items have been added, two of them sharing a position.
C11_Witness ==
    /\ Cardinality(alerted) >= 3
    /\ \E x, y \in alerted : x # y /\ BitPositions(x) \cap BitPositions(y) # {}

\* C12: for every key, the count_in_window values of the alerts built since
\* the last window reset are 1, 2, 3, ... in the order they were built; so
\* the first alert for a key after a reset has count_in_window = 1.
C12_CountsRunFromOne ==
    \A k \in DOMAIN sinceReset :
        \A i \in 1..Len(sinceReset[k]) : sinceReset[k][i] = i

\* C12 witness: two alerts for one key have been placed on Q3 with a window
\* reset between them, the second one built since the last reset.
C12_Witness ==
    /\ Len(sent3) = 2
    /\ KeyOf(sent3[1]) = KeyOf(sent3[2])
    /\ sent3[1].Count = 1 /\ sent3[2].Count = 1
    /\ KeyOf(sent3[2]) \in DOMAIN sinceReset

\* C13: a window reset (the step that empties a non-empty counter map)
\* leaves every Bloom filter bit unchanged, and the first alert built after
\* a reset for a key that already had an alert has count_in_window = 1 and
\* is_known_pattern = true.
C13_ResetKeepsBloom ==
    /\ [][(windowCount # <<>> /\ windowCount' = <<>>) => bits' = bits]_vars
    /\ [][(AlertBuilt /\ KeyOf(anlAlert'[1]) \in alerted
                      /\ KeyOf(anlAlert'[1]) \notin DOMAIN sinceReset)
              => (anlAlert'[1].Count = 1 /\ anlAlert'[1].Known)]_vars

\* C13 witness: a key's second alert has count_in_window = 1 and
\* is_known_pattern = true while the first had is_known_pattern = false.
C13_Witness ==
    \E i, j \in 1..Len(sent3) :
        /\ i < j /\ KeyOf(sent3[i]) = KeyOf(sent3[j])
        /\ ~sent3[i].Known
        /\ sent3[j].Known /\ sent3[j].Count = 1

\* the names of the rules whose predicate holds on log, in registration order
FiringNames(log) ==
    LET idx == SelectSeq(<<1, 2, 3, 4>>, LAMBDA i : Check(i, log))
    IN [k \in 1..Len(idx) |-> rules[idx[k]].Name]

\* the rule names of the alerts placed on Q3 for log, in the order placed
PlacedFor(log) ==
    LET mine == SelectSeq(sent3, LAMBDA a : a.Log = log)
    IN [k \in 1..Len(mine) |-> mine[k].Reason]

\* C14: when processLog returns for a ParsedLog L (no shutdown signalled),
\* the alerts placed on Q3 for L are exactly one per rule whose predicate
\* holds on L, in rule-registration order; none if no rule fires.
C14_OneAlertPerFiringRule ==
    [][(anlPc = "proc" /\ anlPc' = "recv")
          => PlacedFor(anlLog[1]) = FiringNames(anlLog[1])]_vars

\* C14 witness: a record on which two rules fire has been evaluated and has
\* two alerts on Q3, and a record on which none fires has been evaluated.
C14_Witness ==
    /\ \E i, j \in 1..Len(sent3) :
          /\ i < j /\ sent3[i].Log = sent3[j].Log
          /\ sent3[i].Log.Timestamp \in evaluated
    /\ \E ts \in evaluated : \A k \in 1..Len(sent3) : sent3[k].Log.Timestamp # ts

\* connection c has just read a malformed line
MalformedRead(c) ==
    /\ Len(tcpConn'[c].lines) = Len(tcpConn[c].lines) + 1
    /\ tcpConn'[c].lines[Len(tcpConn'[c].lines)] = 0

\* C16: reading a malformed TCP line places nothing on Q1 and leaves the
\* handler reading its connection; and (no shutdown signalled) every
\* well-formed line read after a malformed one has been placed on Q1 or is
\* held by the handler at its select.
C16_MalformedLineSkipped ==
    /\ [][\A c \in WideConns :
             MalformedRead(c) =>
                 (q1' = q1 /\ enq1' = enq1 /\ tcpConn'[c].pc = "scan")]_vars
    /\ [](\A c \in WideConns : \A i, j \in 1..Len(tcpConn[c].lines) :
             (i < j /\ tcpConn[c].lines[i] = 0 /\ tcpConn[c].lines[j] # 0)
                 => \/ tcpConn[c].lines[j] \in enq1
                    \/ /\ tcpConn[c].pc = "select"
                       /\ tcpConn[c].entry[1].Timestamp = tcpConn[c].lines[j])

\* C16 witness: a well-formed line read after a malformed one on the same
\* connection has been placed on Q1.
C16_Witness ==
    \E c \in WideConns : \E i, j \in 1..Len(tcpConn[c].lines) :
        i < j /\ tcpConn[c].lines[i] = 0 /\ tcpConn[c].lines[j] \in enq1

\* C17: when the handler of a connection places a record on Q1, every
\* well-formed line that arrived earlier on that connection has been placed
\* already and no line that arrived later has.
C17_TCPOrderKept ==
    [][\A c \in WideConns :
          (tcpConn[c].pc = "select" /\ tcpConn'[c].pc = "scan") =>
              \A i, j \in 1..Len(tcpConn[c].lines) :
                  (tcpConn[c].lines[j] = tcpConn[c].entry[1].Timestamp
                      /\ tcpConn[c].lines[i] # 0) =>
                          /\ i < j => tcpConn[c].lines[i] \in enq1
                          /\ i > j => tcpConn[c].lines[i] \notin enq1]_vars

\* C17 witness: two lines of one connection have both been placed on Q1,
\* and so has a line of another connection that arrived between them.
C17_Witness ==
    \E c, d \in WideConns : \E i, j \in 1..Len(tcpConn[c].lines) :
        /\ i < j /\ c # d
        /\ tcpConn[c].lines[i] \in enq1 /\ tcpConn[c].lines[j] \in enq1
        /\ \E k \in 1..Len(tcpConn[d].lines) :
              /\ tcpConn[d].lines[k] \in enq1
              /\ tcpConn[c].lines[i] < tcpConn[d].lines[k]
              /\ tcpConn[d].lines[k] < tcpConn[c].lines[j]

\* every alert placed on Q3 for the record stamped ts has been printed and
\* written to the file
AllOutput(ts) ==
    \A k \in 1..Len(sent3) :
        sent3[k].Log.Timestamp = ts =>
            /\ \E n \in 1..Len(stdout) : stdout[n] = sent3[k]
            /\ \E n \in 1..Len(fileData) : fileData[n] = sent3[k]

C18_MarshalFailureDrops ==
    /\ [](\A e \in logged :
             e[1] = "marshal" =>
                 \A a \in { stdout[n] : n \in 1..Len(stdout) }
                          \cup { fileData[n] : n \in 1..Len(fileData) }
                          \cup { q3[n] : n \in 1..Len(q3) }
                          \cup { altAlert[n] : n \in 1..Len(altAlert) } :
                     <<a.Log.Timestamp, a.Reason>> # <<e[2], e[3]>>)
    /\ [][logged' # logged =>
             (altPc' = "recv" /\ q3' = q3 /\ stdout' = stdout
                /\ fileData' = fileData)]_vars

\* C18 witness: the first alert failed to serialize and the alert after it
\* has been printed and written.
C18_Witness ==
    /\ Len(sent3) = 2
    /\ <<"marshal", sent3[1].Log.Timestamp, sent3[1].Reason>> \in logged
    /\ stdout = <<sent3[2]>> /\ fileData = <<sent3[2]>>

\* C19: every failed write to the alert file is logged, the alerts that
\* follow are still written, and the failed write is not retried.
C19_WriteFailureLogged ==
    \A f \in writeFailed :
        /\ <<"write", f[1], f[2]>> \in logged
        /\ \A n \in 1..Len(fileData) :
              <<fileData[n].Log.Timestamp, fileData[n].Reason>> # f

\* C20: when the alert file cannot be opened, Alerter.Start has started no
\* consumer and nothing is taken from Q3, and the process has ended (no
\* goroutine takes a further step); when Start succeeded the file is open
\* until Stop closes it.
C20_StartFailsWithoutConsumer ==
    /\ mainPc = "fatal" =>
           /\ altPc = "none" /\ altWg = 0 /\ file = "none"
           /\ altAlert = <<>> /\ stdout = <<>> /\ fileData = <<>>
           /\ ~ENABLED NextShutdown
    /\ altPc # "none" => file # "none"

\* C20 witness: the open failed while an alert was already waiting on Q3.
C20_Witness == mainPc = "fatal" /\ q3 # <<>>

\* C21: the keywords of a ParsedLog are the whitespace-separated tokens of
\* its message, in order and with duplicates, each with its trailing
\* characters from . , ; : ! ? removed and its leading ones kept, then
\* lowercased, and kept only if longer than 3 characters.
C21_KeywordsTrailingTrimOnly ==
    LET RECURSIVE Stated(_)
        Stated(words) ==
            IF words = <<>> THEN <<>>
            ELSE LET word == ToLower(TrimRight(Head(words)))
                 IN (IF Len(word) > 3 THEN <<word>> ELSE <<>>)
                    \o Stated(Tail(words))
    IN \A w \in Workers :
          worker[w].parsed # <<>> =>
              worker[w].parsed[1].Keywords
                  = Stated(Fields(worker[w].parsed[1].Message, 1, <<>>))

\* C22: when processLog returns for a record whose message contains a
\* standalone three-digit code beginning with 5, an Error Code 5xx alert has
\* been placed on Q3 for it, whatever error tokens come before the code.
C22_Fires5xxAnywhere ==
    [][LET Standalone5xx(s) ==
               \E p \in 1..Len(s) :
                   /\ p + 2 <= Len(s)
                   /\ s[p] = 53 /\ IsDigit(s[p + 1]) /\ IsDigit(s[p + 2])
                   /\ WordBoundary(s, p) /\ WordBoundary(s, p + 3)
       IN (anlPc = "proc" /\ anlPc' = "recv"
             /\ Standalone5xx(anlLog[1].Message))
          => \E n \in 1..Len(sent3) :
                /\ sent3[n].Log = anlLog[1]
                /\ sent3[n].Reason = NameErrorCode5xx]_vars

C28_BloomOneGoroutineMapUnderMutex ==
    /\ [](bloomUsers \subseteq {"analyze"})
    /\ [](windowMutex = "analyze" <=> anlPc = "count")
    /\ [](windowMutex = "cleanupWindow" <=> clnPc = "reset")
    /\ [][bits' # bits => (anlPc = "proc" /\ anlPc' = "lock" /\ clnPc' = clnPc)]_vars
    /\ [][windowCount' # windowCount
             => \/ windowMutex = "analyze" /\ anlPc = "count" /\ anlPc' = "send"
                \/ windowMutex = "cleanupWindow" /\ clnPc = "reset" /\ clnPc' = "loop"]_vars

\* C28 witness: the window-reset loop holds the mutex with counts to clear
\* while processLog, having added to the Bloom filter, waits for it.
C28_Witness ==
    /\ windowMutex = "cleanupWindow" /\ clnPc = "reset"
    /\ anlPc = "lock"
    /\ bits # {} /\ windowCount # <<>>

\* C25: Q2 is closed only after every parser worker has exited and Q3 only
\* after both analyzer goroutines have exited, no send on Q2 or Q3 is ever
\* attempted after its close, and the queues are closed in the order Q1,
\* Q2, Q3.
C25_CloseAfterSendersExit ==
    /\ q2Closed => \A w \in Workers : worker[w].pc = "exited"
    /\ q3Closed => (anlPc = "exited" /\ clnPc = "exited")
    /\ "Q2" \notin sentOnClosed /\ "Q3" \notin sentOnClosed
    /\ q3Closed => q2Closed
    /\ q2Closed => q1Closed

\* C25 witness: the three queues are closed after a run in which a worker
\* placed a record on Q2 and the analyzer placed an alert on Q3.
C25_Witness ==
    /\ q1Closed /\ q2Closed /\ q3Closed
    /\ enq2 # {} /\ sent3 # <<>>

\* C26: once the alert file is closed the consumer goroutine has returned
\* and no outputAlert call is in progress, and from then on nothing is
\* written to the file.
C26_NoWriteAfterClose ==
    /\ [](file = "closed" => (altPc = "exited" /\ altAlert = <<>> /\ altWg = 0))
    /\ [][file = "closed"
             => (file' = "closed" /\ fileData' = fileData /\ fileBytes' = fileBytes
                 /\ altPc' = "exited")]_vars

\* C26 witness: the file is closed after alerts were written to it, with an
\* alert left on Q3 that the consumer did not take.
C26_Witness ==
    /\ file = "closed" /\ fileData # <<>>
    /\ q3 # <<>>

\* C27: the alerts of one record are contiguous on Q3: between two alerts
\* placed for the same record no alert of another record was placed.
C27_AlertsOfRecordContiguous ==
    \A i, k \in 1..Len(sent3) :
        (i < k /\ sent3[i].Log = sent3[k].Log)
            => \A j \in i..k : sent3[j].Log = sent3[i].Log

\* C27 witness: two records have each had two alerts placed on Q3, those of
\* the one before those of the other.
C27_Witness ==
    /\ Len(sent3) = 4
    /\ sent3[1].Log = sent3[2].Log /\ sent3[3].Log = sent3[4].Log
    /\ sent3[2].Log # sent3[3].Log

\* C29: the step in which a worker takes a RawLog removes it from Q1 and
\* changes that worker alone, and the ParsedLog it then holds carries the
\* record's timestamp, level, source and message; the step in which a worker
\* places its ParsedLog on Q2 places a record that was on Q1 and was not
\* placed on Q2 before, and the worker keeps nothing; Q2 grows by such steps
\* only; and no record is held by two workers, or held by a worker while it
\* is still on Q1 or already on Q2.
C29_OneParsedLogPerRawLog ==
    /\ [][\A w \in Workers :
             /\ (worker[w].pc = "recv" /\ worker'[w].pc = "send")
                   => /\ q1 # <<>> /\ q1' = Tail(q1)
                      /\ worker'[w].parsed[1].Timestamp = Head(q1).Timestamp
                      /\ worker'[w].parsed[1].Level = Head(q1).Level
                      /\ worker'[w].parsed[1].Source = Head(q1).Source
                      /\ worker'[w].parsed[1].Message = Head(q1).Message
                      /\ Head(q1).Timestamp \in enq1
                      /\ \A v \in Workers \ {w} : worker'[v] = worker[v]
             /\ (worker[w].pc = "send" /\ worker'[w].pc = "recv")
                   => /\ q2' = Append(q2, worker[w].parsed[1])
                      /\ worker[w].parsed[1].Timestamp \in enq1 \ enq2
                      /\ worker'[w].parsed = <<>>]_vars
    /\ [][Len(q2') > Len(q2)
             => \E w \in Workers : worker[w].pc = "send" /\ worker'[w].pc = "recv"]_vars
    /\ [](\A w \in Workers :
             worker[w].parsed # <<>> =>
                 /\ \A v \in Workers \ {w} :
                       worker[v].parsed # <<>> =>
                           worker[v].parsed[1].Timestamp # worker[w].parsed[1].Timestamp
                 /\ worker[w].parsed[1].Timestamp \notin enq2
                 /\ \A n \in 1..Len(q1) :
                       q1[n].Timestamp # worker[w].parsed[1].Timestamp)

\* C29 witness: the two workers hold the ParsedLogs of two different records,
\* of different levels, at the same time.
C29_Witness ==
    /\ \A w \in Workers : worker[w].pc = "send"
    /\ worker[1].parsed[1].Timestamp # worker[2].parsed[1].Timestamp
    /\ worker[1].parsed[1].Level # worker[2].parsed[1].Level

=============================================================================
